---- MODULE Spec2Model ----
(***************************************************************************)
(* tsdoc-to-markdown: the extractor (generateDocumentation, visit and the  *)
(* serializers) and the renderer (documentationToMarkdown).                *)
(*                                                                         *)
(* A syntax node is a record [kind, exported, named, symbol, declarations, *)
(* children].  exported is what getCombinedModifierFlags reports for the   *)
(* node (Export or Public set), symbol is what the symbol lookup of the    *)
(* checker yields for the location the code asks about (<<>>: undefined,   *)
(* <<s>>: the symbol s), children is what forEachChild enumerates.         *)
(* A call that may throw returns [fault, entries]/[fault, value].          *)
(***************************************************************************)
EXTENDS Naturals, Sequences, FiniteSets, TLC

VARIABLES program, idx, result, outcome, returned, mdEntries, markdown, mdDone

vars == <<program, idx, result, outcome, returned, mdEntries, markdown, mdDone>>

(***************************************************************************)
(* Bounds of the checked inputs.                                           *)
(***************************************************************************)
MaxFiles == 2
MaxStmts == 2
MaxChildren == 2
MaxEntries == 3

(***************************************************************************)
(* Sequence helpers.                                                       *)
(***************************************************************************)
SeqsUpTo(S, n) == UNION {[1..k -> S] : k \in 0..n}

RECURSIVE Flatten(_)
Flatten(ss) == IF ss = <<>> THEN <<>> ELSE Head(ss) \o Flatten(Tail(ss))

MapSeq(Op(_), s) == [k \in 1..Len(s) |-> Op(s[k])]

(***************************************************************************)
(* The extractor.                                                          *)
(***************************************************************************)
Ok(es) == [fault |-> FALSE, entries |-> es]
Fault == [fault |-> TRUE, entries |-> <<>>]

\* serializeSymbol: {name, documentation, type, jsDocs}; the checker calls
\* raise for a symbol it cannot type (symbol.throws).
serializeSymbol(symbol) ==
    IF symbol.throws
    THEN [fault |-> TRUE, value |-> [name |-> symbol.name]]
    ELSE [fault |-> FALSE,
          value |-> [name |-> symbol.name,
                     documentation |-> symbol.documentation,
                     type |-> symbol.type,
                     jsDocs |-> symbol.jsDocs]]

\* serializeSignature: {parameters, returnType, documentation}
serializeSignature(signature) ==
    LET ps == MapSeq(serializeSymbol, signature.parameters) IN
    [fault |-> \E k \in 1..Len(ps) : ps[k].fault,
     value |-> [parameters |-> [k \in 1..Len(ps) |-> ps[k].value],
                returnType |-> signature.returnType,
                documentation |-> signature.documentation]]

\* serializeClass: serializeSymbol plus constructors
serializeClass(symbol) ==
    LET details == serializeSymbol(symbol)
        cs == MapSeq(serializeSignature, symbol.constructSignatures) IN
    [fault |-> details.fault \/ \E k \in 1..Len(cs) : cs[k].fault,
     value |-> ("constructors" :> [k \in 1..Len(cs) |-> cs[k].value]) @@ details.value]

\* mutant: the gate lets every node through
isNodeExportedOrPublic_NoGate(node) == TRUE

isNodeExportedOrPublic(node) == node.exported

\* findDescendantArrowFunction: the node itself, else the first hit among
\* the children in order (forEachChild stops at the first truthy result).
RECURSIVE findDescendantArrowFunction(_)
RECURSIVE FirstArrow(_)
FirstArrow(nodes) ==
    IF nodes = <<>> THEN <<>>
    ELSE LET hit == findDescendantArrowFunction(Head(nodes)) IN
         IF hit # <<>> THEN hit ELSE FirstArrow(Tail(nodes))

findDescendantArrowFunction(node) ==
    IF node.kind = "ArrowFunction" THEN <<node>> ELSE FirstArrow(node.children)

\* mutant: the undefined symbol is serialized like any other
addDocEntry_Unguarded(symbol) ==
    IF symbol = <<>> THEN Fault
    ELSE LET details == serializeSymbol(symbol[1]) IN
         IF details.fault THEN Fault ELSE Ok(<<details.value>>)

\* addDocEntry: an undefined symbol is skipped, any other is serialized
addDocEntry(symbol) ==
    IF symbol = <<>> THEN Ok(<<>>)
    ELSE LET details == serializeSymbol(symbol[1]) IN
         IF details.fault THEN Fault ELSE Ok(<<details.value>>)

\* mutant: the children's records never reach methods
classEntry_NoMethods(details, docEntries) == ("methods" :> <<>>) @@ details

\* {...serializeClass(...), methods: []} with the children's records pushed
classEntry(details, docEntries) == ("methods" :> docEntries) @@ details

RECURSIVE visit(_)
RECURSIVE visitChildren(_)

\* forEachChild(node, visitChild): the children's records in source order;
\* a throw in any child propagates.
visitChildren(nodes) ==
    IF nodes = <<>> THEN Ok(<<>>)
    ELSE LET first == visit(Head(nodes))
             rest == visitChildren(Tail(nodes)) IN
         IF first.fault \/ rest.fault THEN Fault
         ELSE Ok(first.entries \o rest.entries)

visit(node) ==
    IF ~isNodeExportedOrPublic(node) THEN Ok(<<>>)
    ELSE IF node.kind = "ClassDeclaration" /\ node.named THEN
        IF node.symbol = <<>> THEN Ok(<<>>)
        ELSE LET details == serializeClass(node.symbol[1])
                 kids == visitChildren(node.children) IN
             IF details.fault \/ kids.fault THEN Fault
             ELSE Ok(<<classEntry(details.value, kids.entries)>>)
    ELSE IF node.kind = "ModuleDeclaration" THEN visitChildren(node.children)
    ELSE IF node.kind = "MethodDeclaration" THEN addDocEntry(node.symbol)
    ELSE IF node.kind = "FunctionDeclaration" THEN addDocEntry(node.symbol)
    ELSE IF node.kind = "VariableStatement" THEN
        IF node.declarations = <<>> THEN Fault
        ELSE addDocEntry(node.declarations[1].symbol)
    ELSE LET arrowFunc == findDescendantArrowFunction(node) IN
         IF arrowFunc # <<>> THEN addDocEntry(arrowFunc[1].symbol) ELSE Ok(<<>>)

\* program.getSourceFiles().filter(({isDeclarationFile}) => !isDeclarationFile)
IsSourceFile(f) == ~f.isDeclarationFile
sourceFiles == SelectSeq(program, IsSourceFile)

\* mutant: the records are pushed as visit returned them
Stamp_None(entries, fileName) == entries

\* entries.map((entry) => ({...entry, fileName: sourceFile.fileName}))
Stamp(entries, fileName) ==
    [k \in 1..Len(entries) |-> ("fileName" :> fileName) @@ entries[k]]

\* forEachChild(sourceFile, (node) => result.push(...visit(node).map(stamp)))
RECURSIVE walk(_, _)
\* mutant: the records of a statement are put before those already there
walk_Unshift(statements, fileName) ==
    IF statements = <<>> THEN Ok(<<>>)
    ELSE LET entries == visit(Head(statements))
             rest == walk(Tail(statements), fileName) IN
         IF entries.fault \/ rest.fault THEN Fault
         ELSE Ok(rest.entries \o Stamp(entries.entries, fileName))

walk(statements, fileName) ==
    IF statements = <<>> THEN Ok(<<>>)
    ELSE LET entries == visit(Head(statements))
             rest == walk(Tail(statements), fileName) IN
         IF entries.fault \/ rest.fault THEN Fault
         ELSE Ok(Stamp(entries.entries, fileName) \o rest.entries)

(***************************************************************************)
(* The checked inputs: symbols, syntax nodes in the shapes the TypeScript  *)
(* parser builds, and programs.                                            *)
(***************************************************************************)
Signature(parameters, returnType) ==
    [parameters |-> parameters, returnType |-> returnType, documentation |-> ""]

Sym(name) ==
    [name |-> name, documentation |-> "", type |-> "any", jsDocs |-> <<>>,
     throws |-> FALSE, callSignatures |-> <<>>, constructSignatures |-> <<>>]

BadSym(name) == [Sym(name) EXCEPT !.throws = TRUE]

FunctionSym(name) ==
    [Sym(name) EXCEPT !.type = "(a: number, b: number) => number",
                      !.callSignatures = <<Signature(<<Sym("a"), Sym("b")>>, "number")>>]

ClassSym(name) ==
    [Sym(name) EXCEPT !.type = "typeof " \o name,
                      !.constructSignatures = <<Signature(<<Sym("x")>>, name)>>]

Node(kind, exported, named, symbol, declarations, children) ==
    [kind |-> kind, exported |-> exported, named |-> named, symbol |-> symbol,
     declarations |-> declarations, children |-> children]

\* a name: it carries no modifier
Identifier == Node("Identifier", FALSE, FALSE, <<>>, <<>>, <<>>)

\* () => ...; symbol is what the checker resolves for parent.name
ArrowFunction(symbol) == Node("ArrowFunction", FALSE, FALSE, symbol, <<>>, <<>>)

MethodDeclaration(public, symbol) ==
    Node("MethodDeclaration", public, TRUE, symbol, <<>>, <<Identifier>>)

\* h = () => ... in a class body
PropertyDeclaration(public, symbol) ==
    Node("PropertyDeclaration", public, TRUE, symbol, <<>>,
         <<Identifier, ArrowFunction(symbol)>>)

FunctionDeclaration(exported, symbol) ==
    Node("FunctionDeclaration", exported, TRUE, symbol, <<>>, <<Identifier>>)

VariableStatement(exported, declarations) ==
    Node("VariableStatement", exported, FALSE, <<>>, declarations, <<>>)

InterfaceDeclaration(exported) ==
    Node("InterfaceDeclaration", exported, TRUE, <<>>, <<>>, <<Identifier>>)

\* forEachChild of a class: its name, then its members
ClassDeclaration(exported, named, symbol, members) ==
    Node("ClassDeclaration", exported, named, symbol, <<>>,
         (IF named THEN <<Identifier>> ELSE <<>>) \o members)

\* the { ... } of a namespace: a block carries no modifier
ModuleBlock(statements) == Node("ModuleBlock", FALSE, FALSE, <<>>, <<>>, statements)

\* forEachChild of a namespace: its name, then its body
ModuleDeclaration(exported, statements) ==
    Node("ModuleDeclaration", exported, TRUE, <<>>, <<>>,
         <<Identifier, ModuleBlock(statements)>>)

F == FunctionDeclaration(TRUE, <<FunctionSym("f")>>)
G == FunctionDeclaration(TRUE, <<FunctionSym("g")>>)
M == MethodDeclaration(TRUE, <<Sym("m")>>)
H == PropertyDeclaration(TRUE, <<Sym("h")>>)

Members ==
    {M, H,
     MethodDeclaration(FALSE, <<Sym("p")>>),
     MethodDeclaration(TRUE, <<>>),
     MethodDeclaration(TRUE, <<BadSym("q")>>)}

Classes ==
    {ClassDeclaration(c[1], c[2], c[3], ms) :
        c \in {<<TRUE, TRUE, <<ClassSym("C")>>>>, <<TRUE, TRUE, <<>>>>,
               <<TRUE, FALSE, <<>>>>, <<FALSE, TRUE, <<ClassSym("C")>>>>},
        ms \in SeqsUpTo(Members, MaxChildren)}

Modules ==
    {ModuleDeclaration(e, ss) :
        e \in BOOLEAN,
        ss \in SeqsUpTo({F, G, FunctionDeclaration(TRUE, <<BadSym("q")>>)}, MaxChildren)}

Leaves ==
    {F, G,
     FunctionDeclaration(TRUE, <<>>),
     FunctionDeclaration(TRUE, <<BadSym("q")>>),
     FunctionDeclaration(FALSE, <<FunctionSym("k")>>),
     VariableStatement(TRUE, <<[symbol |-> <<Sym("v")>>]>>),
     VariableStatement(TRUE, <<[symbol |-> <<>>]>>),
     VariableStatement(TRUE, <<>>),
     VariableStatement(FALSE, <<[symbol |-> <<Sym("w")>>]>>),
     InterfaceDeclaration(TRUE)}

\* the statements of the main file: declarations without a body, or one
\* class or namespace with a function before or after it
Statements ==
    SeqsUpTo(Leaves, MaxStmts)
    \cup UNION {{<<c>>, <<F, c>>, <<c, G>>} : c \in Classes \cup Modules}

SourceFile(fileName, isDeclarationFile, statements) ==
    [fileName |-> fileName, isDeclarationFile |-> isDeclarationFile,
     statements |-> statements]

OtherFiles ==
    {SourceFile("lib.d.ts", TRUE, <<FunctionDeclaration(TRUE, <<FunctionSym("d")>>)>>),
     SourceFile("b.ts", FALSE, <<G>>)}

DistinctNames(files) ==
    \A j, k \in 1..Len(files) : files[j].fileName = files[k].fileName => j = k

Programs ==
    {fs \in {pre \o <<SourceFile("a.ts", FALSE, ss)>> \o post :
                pre \in SeqsUpTo(OtherFiles, MaxFiles - 1),
                post \in SeqsUpTo(OtherFiles, MaxFiles - 1),
                ss \in Statements} :
        Len(fs) <= MaxFiles /\ DistinctNames(fs)}

(***************************************************************************)
(* generateDocumentation as a state machine: one step per source file.     *)
(***************************************************************************)
Init ==
    /\ program \in Programs
    /\ idx = 1
    /\ result = <<>>
    /\ outcome = "running"
    /\ returned = <<>>
    /\ mdEntries = <<>>
    /\ markdown = <<>>
    /\ mdDone = FALSE

\* one iteration of the loop over sourceFiles that completes
VisitSourceFile ==
    /\ outcome = "running"
    /\ idx <= Len(sourceFiles)
    /\ LET entries == walk(sourceFiles[idx].statements, sourceFiles[idx].fileName) IN
        /\ ~entries.fault
        /\ result' = result \o entries.entries
    /\ idx' = idx + 1
    /\ UNCHANGED <<program, outcome, returned, mdEntries, markdown, mdDone>>

\* an iteration in which a serialization throws: nothing catches it
Throw ==
    /\ outcome = "running"
    /\ idx <= Len(sourceFiles)
    /\ walk(sourceFiles[idx].statements, sourceFiles[idx].fileName).fault
    /\ outcome' = "error"
    /\ UNCHANGED <<program, idx, result, returned, mdEntries, markdown, mdDone>>

\* return result
Return ==
    /\ outcome = "running"
    /\ idx > Len(sourceFiles)
    /\ outcome' = "returned"
    /\ returned' = result
    /\ UNCHANGED <<program, idx, result, mdEntries, markdown, mdDone>>

Next == VisitSourceFile \/ Throw \/ Return

Spec == Init /\ [][Next]_vars

(***************************************************************************)
(* The renderer.  A Markdown string is the sequence of its lines: the      *)
(* empty string is <<"">>, a template ending in a line break is the lines  *)
(* of its text followed by an empty line, and join puts the lines of the   *)
(* parts one after another.  The back quotes the code puts around names    *)
(* and types in a table row and a parameter bullet are left out.           *)
(***************************************************************************)
Has(entry, field) == field \in DOMAIN entry

\* a string that may be undefined, in a template
Interpolate(entry, field) == IF Has(entry, field) THEN entry[field] ELSE "undefined"

\* value ?? ''
OrEmpty(entry, field) == IF Has(entry, field) THEN entry[field] ELSE ""

\* value ?? []
OrNone(entry, field) == IF Has(entry, field) THEN entry[field] ELSE <<>>

\* parts.join: the empty list joins to the empty string
Join(parts) == IF parts = <<>> THEN <<"">> ELSE Flatten(parts)

paramToMarkdown(param) ==
    "* " \o param.name \o ": " \o OrEmpty(param, "documentation")

rowToMarkdown(entry) ==
    LET name == entry.name
        type == OrEmpty(entry, "type")
        documentation == OrEmpty(entry, "documentation")
        params == OrNone(entry, "parameters") IN
    <<"## " \o name, "">>
    \o (IF documentation # "" THEN <<documentation, "">> ELSE <<>>)
    \o <<"| Name | Type |",
         "| ---------- | ---------- |",
         "| " \o name \o " | " \o type \o " |", "">>
    \o (IF params # <<>>
        THEN <<"Parameters:">> \o MapSeq(paramToMarkdown, params)
        ELSE <<>>)

toMarkdown(entries) == Join(MapSeq(rowToMarkdown, entries))

classesToMarkdown(entry) ==
    <<"# " \o entry.name, "">>
    \o <<Interpolate(entry, "documentation"), "">>
    \o toMarkdown(OrNone(entry, "methods")) \o <<"">>

\* entries.filter(({doc_type}) => doc_type === docType)
IsFunction(entry) == Has(entry, "doc_type") /\ entry.doc_type = "function"
\* mutant: whatever is neither a function nor a const is a class
IsClass_Otherwise(entry) ==
    ~(Has(entry, "doc_type") /\ entry.doc_type \in {"function", "const"})

IsClass(entry) == Has(entry, "doc_type") /\ entry.doc_type = "class"
IsConst(entry) == Has(entry, "doc_type") /\ entry.doc_type = "const"

\* mutant: the constants are emitted before the functions
documentationToMarkdown_ConstsFirst(entries) ==
    LET functions == SelectSeq(entries, IsFunction)
        classes == SelectSeq(entries, IsClass)
        consts == SelectSeq(entries, IsConst) IN
    Join((IF consts # <<>>
          THEN <<<<"# Constants", "">>, toMarkdown(consts) \o <<"">>>>
          ELSE <<>>)
         \o (IF functions # <<>>
             THEN <<<<"# Functions", "">>, toMarkdown(functions) \o <<"">>>>
             ELSE <<>>)
         \o <<Join(MapSeq(classesToMarkdown, classes))>>)

documentationToMarkdown(entries) ==
    LET functions == SelectSeq(entries, IsFunction)
        classes == SelectSeq(entries, IsClass)
        consts == SelectSeq(entries, IsConst) IN
    Join((IF functions # <<>>
          THEN <<<<"# Functions", "">>, toMarkdown(functions) \o <<"">>>>
          ELSE <<>>)
         \o (IF consts # <<>>
             THEN <<<<"# Constants", "">>, toMarkdown(consts) \o <<"">>>>
             ELSE <<>>)
         \o <<Join(MapSeq(classesToMarkdown, classes))>>)

(***************************************************************************)
(* The checked inputs of the renderer: records as the extractor builds     *)
(* them (no doc_type), and records tagged with a doc_type.                 *)
(***************************************************************************)
Tagged(entry, docType) == ("doc_type" :> docType) @@ entry

Extracted(name) == serializeSymbol(Sym(name)).value

MdEntries ==
    {Tagged([name |-> "a", type |-> "() => void",
             parameters |-> <<[name |-> "x", documentation |-> "the x"]>>], "function"),
     Tagged([name |-> "b", documentation |-> "does b", type |-> "() => void"], "function"),
     Tagged([name |-> "a", type |-> "number"], "const"),
     Tagged([name |-> "b", documentation |-> "is b", type |-> "string"], "const"),
     Tagged([name |-> "a", documentation |-> "is a",
             methods |-> <<[name |-> "m", type |-> "() => void"]>>], "class"),
     Tagged([name |-> "b"], "class"),
     Extracted("a"),
     classEntry(Extracted("b"), <<Extracted("m")>>)}

InitMd ==
    /\ mdEntries \in SeqsUpTo(MdEntries, MaxEntries)
    /\ markdown = <<>>
    /\ mdDone = FALSE
    /\ program = <<>>
    /\ idx = 1
    /\ result = <<>>
    /\ outcome = "idle"
    /\ returned = <<>>

Render ==
    /\ ~mdDone
    /\ markdown' = documentationToMarkdown(mdEntries)
    /\ mdDone' = TRUE
    /\ UNCHANGED <<mdEntries, program, idx, result, outcome, returned>>

NextMd == Render

SpecMd == InitMd /\ [][NextMd]_vars

(***************************************************************************)
(* The properties.                                                         *)
(***************************************************************************)
RECURSIVE Subtree(_)
Subtree(node) ==
    {node} \cup UNION {Subtree(node.children[k]) : k \in 1..Len(node.children)}

Statement(i, k) == sourceFiles[i].statements[k]

StatementIds ==
    {ik \in (1..Len(sourceFiles)) \X (1..(MaxStmts + 1)) :
        ik[2] <= Len(sourceFiles[ik[1]].statements)}

ProgramNodes == UNION {Subtree(Statement(ik[1], ik[2])) : ik \in StatementIds}

Names(entries) == [k \in 1..Len(entries) |-> entries[k].name]

PassesGate(node) == node.exported

\* C1: a node without an export or public modifier yields no record and
\* its children are not visited (a child that would throw does not); a
\* program in which no node carries one returns the empty sequence.
C1_VisibilityGate ==
    /\ \A n \in ProgramNodes : ~n.exported => visit(n) = Ok(<<>>)
    /\ (\A n \in ProgramNodes : ~n.exported) =>
          /\ outcome # "error"
          /\ result = <<>>
          /\ returned = <<>>

C1_Witness ==
    /\ outcome = "returned"
    /\ returned = <<>>
    /\ \E ik \in StatementIds :
          LET n == Statement(ik[1], ik[2]) IN
          /\ n.kind = "ClassDeclaration" /\ ~n.exported
          /\ \E k \in 1..Len(n.children) :
                n.children[k].exported /\ n.children[k].symbol # <<>>

ResolvedClass(n) ==
    /\ n.kind = "ClassDeclaration"
    /\ n.exported /\ n.named /\ n.symbol # <<>>

MemberRecords(n) ==
    Flatten([k \in 1..Len(n.children) |->
                IF PassesGate(n.children[k]) THEN visit(n.children[k]).entries
                ELSE <<>>])

MemberNames == {"m", "h", "p", "q"}

\* C2: an exported named class whose symbol resolves yields exactly one
\* record, named after the class, whose methods are the records of its
\* gate-passing direct children in source order; one public method m gives
\* methods = [m], no member gives methods = []; in the returned result the
\* file of such a class holds no member record at the top level.
C2_ClassNesting ==
    \A ik \in StatementIds :
        LET n == Statement(ik[1], ik[2])
            r == visit(n) IN
        (ResolvedClass(n) /\ ~r.fault) =>
            /\ Len(r.entries) = 1
            /\ r.entries[1].name = n.symbol[1].name
            /\ Has(r.entries[1], "methods")
            /\ r.entries[1].methods = MemberRecords(n)
            /\ (n.children = <<Identifier, M>> => Names(r.entries[1].methods) = <<"m">>)
            /\ (n.children = <<Identifier>> => r.entries[1].methods = <<>>)
            /\ (outcome = "returned" =>
                  \A j \in 1..Len(returned) :
                      returned[j].fileName = sourceFiles[ik[1]].fileName =>
                          returned[j].name \notin MemberNames)

C2_Witness ==
    /\ outcome = "returned"
    /\ \E j \in 1..Len(returned) :
          /\ returned[j].name = "C"
          /\ Names(returned[j].methods) = <<"m", "h">>

DeclaredIn(n) == n.children[2].children

\* C3: an exported namespace yields no record of its own and the records
\* of the declarations it wraps appear at the top level in source order: a
\* namespace wrapping exported functions that resolve yields their records.
C3_NamespaceTransparency ==
    outcome = "returned" =>
        \A ik \in StatementIds :
            LET n == Statement(ik[1], ik[2]) IN
            (n.kind = "ModuleDeclaration" /\ n.exported
                /\ (\A k \in 1..Len(DeclaredIn(n)) : DeclaredIn(n)[k] \in {F, G})
                /\ sourceFiles[ik[1]].statements = <<n>>
                /\ Len(sourceFiles) = 1) =>
                    Names(returned) = [k \in 1..Len(DeclaredIn(n)) |->
                                          DeclaredIn(n)[k].symbol[1].name]

FileRecords(f) ==
    Flatten([k \in 1..Len(f.statements) |->
                Stamp(visit(f.statements[k]).entries, f.fileName)])

\* C4: the returned sequence is, file after file in the order of the
\* non-declaration source files and statement after statement in source
\* order, the records of each top-level statement; nothing is dropped for
\* sharing a name.
C4_ResultOrdering ==
    /\ result = Flatten([i \in 1..(idx - 1) |-> FileRecords(sourceFiles[i])])
    /\ outcome = "returned" =>
          returned = Flatten([i \in 1..Len(sourceFiles) |-> FileRecords(sourceFiles[i])])

C4_Witness ==
    /\ outcome = "returned"
    /\ Len(sourceFiles) = 2
    /\ Len(returned) = 3
    /\ returned[1].name = returned[2].name
    /\ returned[1].fileName = returned[2].fileName
    /\ returned[3].fileName # returned[1].fileName

NoFileName(entries) == \A k \in 1..Len(entries) : ~Has(entries[k], "fileName")

NestedUnstamped(entry) ==
    /\ Has(entry, "methods") => NoFileName(entry.methods)
    /\ Has(entry, "parameters") => NoFileName(entry.parameters)
    /\ Has(entry, "constructors") =>
          /\ NoFileName(entry.constructors)
          /\ \A k \in 1..Len(entry.constructors) :
                NoFileName(entry.constructors[k].parameters)

\* C5: every record a source file's traversal appends to the result has
\* fileName equal to that file's path, no nested record (a method, a
\* constructor, a parameter) has a fileName, and the returned sequence is
\* the result so stamped.
C5_FileNameStamping ==
    [][/\ idx' = idx + 1 =>
            \A k \in (Len(result) + 1)..Len(result') :
                /\ Has(result'[k], "fileName")
                /\ result'[k].fileName = sourceFiles[idx].fileName
                /\ NestedUnstamped(result'[k])
       /\ idx' = idx => result' = result
       /\ outcome' = "returned" => returned' = result]_vars

C5_Witness ==
    /\ outcome = "returned"
    /\ \E j, k \in 1..Len(returned) :
          /\ returned[j].fileName = "b.ts"
          /\ returned[k].fileName = "a.ts"
          /\ Has(returned[k], "constructors") /\ returned[k].constructors # <<>>
          /\ returned[k].methods # <<>>

\* C6: an exported function declaration yields one record that carries,
\* besides name and type, the parameters of the function, one per formal
\* parameter in order, and the return type of its signature.
C6_FunctionRecordShape ==
    (outcome = "returned" /\ Len(program) = 1 /\ program[1].statements = <<F>>) =>
        /\ Len(returned) = 1
        /\ returned[1].name = "f"
        /\ Has(returned[1], "type")
        /\ Has(returned[1], "parameters")
        /\ Has(returned[1], "returnType")
        /\ Names(returned[1].parameters) = <<"a", "b">>
        /\ returned[1].returnType = "number"

Throws(i) == \E k \in 1..Len(sourceFiles[i].statements) : visit(Statement(i, k)).fault

\* a declaration whose symbol lookup yields no symbol
NoSymbol(n) ==
    \/ n.kind \in {"ClassDeclaration", "MethodDeclaration", "FunctionDeclaration"}
          /\ n.named /\ n.symbol = <<>>
    \/ n.kind = "VariableStatement" /\ n.declarations # <<>>
          /\ n.declarations[1].symbol = <<>>

HasSymbol(n) == ~NoSymbol(n)

\* C9: a fault while a statement is visited ends the run in the error
\* outcome with nothing returned, whatever was collected before it; a run
\* returns only if no statement faults; a node whose symbol lookup yields
\* no symbol yields no record and the nodes after it are visited as if it
\* were not there.
C9_AllOrNothing ==
    /\ outcome = "error" => (returned = <<>> /\ Throws(idx))
    /\ outcome = "returned" => \A i \in 1..Len(sourceFiles) : ~Throws(i)
    /\ outcome = "running" => \A i \in 1..(idx - 1) : ~Throws(i)
    /\ \A n \in ProgramNodes : NoSymbol(n) => visit(n) = Ok(<<>>)
    /\ \A i \in 1..Len(sourceFiles) :
          walk(sourceFiles[i].statements, "x")
             = walk(SelectSeq(sourceFiles[i].statements, HasSymbol), "x")

C9_Witness ==
    /\ outcome = "error"
    /\ result # <<>>
    /\ returned = <<>>

C9_SkipWitness ==
    /\ outcome = "returned"
    /\ Len(sourceFiles) = 1
    /\ Len(sourceFiles[1].statements) = 2
    /\ NoSymbol(Statement(1, 1))
    /\ Names(returned) = <<"g">>

\* C10: an exported class declaration with no name contributes no record,
\* whatever its body contains.
C10_UnnamedClass ==
    outcome = "returned" =>
        \A ik \in StatementIds :
            LET n == Statement(ik[1], ik[2]) IN
            (n.kind = "ClassDeclaration" /\ ~n.named /\ Len(sourceFiles) = 1
                /\ sourceFiles[1].statements = <<n>>) => returned = <<>>

Headings ==
    {"# Functions", "# Constants"}
    \cup {"# " \o n : n \in {"a", "b", "m", "x"}}
    \cup {"## " \o n : n \in {"a", "b", "m", "x"}}

IsHeading(line) == line \in Headings

RowHeading(entry) == "## " \o entry.name

Section(title, entries) ==
    IF entries = <<>> THEN <<>> ELSE <<title>> \o MapSeq(RowHeading, entries)

ClassHeadings(entry) ==
    <<"# " \o entry.name>> \o MapSeq(RowHeading, OrNone(entry, "methods"))

\* C7: whatever the order of the input, the headings of the output are the
\* Functions section (only with a function entry) with one row per function
\* entry in input order, then the Constants section (only with a const
\* entry) with one row per const entry in input order, then one section per
\* class entry in input order with one row per method.
C7_SectionOrder ==
    mdDone =>
        SelectSeq(markdown, IsHeading)
            = Section("# Functions", SelectSeq(mdEntries, IsFunction))
              \o Section("# Constants", SelectSeq(mdEntries, IsConst))
              \o Flatten(MapSeq(ClassHeadings, SelectSeq(mdEntries, IsClass)))

C7_Witness ==
    /\ mdDone
    /\ Len(mdEntries) = 3
    /\ IsClass(mdEntries[1]) /\ IsConst(mdEntries[2]) /\ IsFunction(mdEntries[3])
    /\ markdown[1] = "# Functions"

Untagged(entries) == \A k \in 1..Len(entries) : ~Has(entries[k], "doc_type")

====
